---- MODULE Spec2Model ----
(***************************************************************************)
(* The sidebar search widget of the manager UI                             *)
(* (code/ui/manager/src/components/sidebar/Search.tsx): the flattened      *)
(* search list, getResults (filter / dedup / cap / expand marker), the     *)
(* last-viewed fallback of the render function, and the stateReducer       *)
(* overrides of the Downshift container.                                   *)
(*                                                                         *)
(* Text is a sequence of characters, '' is << >>.  Item ids are positive   *)
(* integers, 0 stands for an undefined parent.  Downshift's null is the    *)
(* record Null for items and 0 for the highlighted index; item indexes     *)
(* are 1-based.                                                            *)
(***************************************************************************)
EXTENDS Integers, Sequences, FiniteSets, TLC

VARIABLES
    dataset,          \* prop: the combined dataset (entries; hash is RefData)
    lastViewed,       \* what the getLastViewed prop returns
    rankMode,         \* how the fuzzy-search library orders its matches
    api,              \* useStorybookApi() returned an api object
    list,             \* useMemo: flattened search items
    allComponents,    \* useState: the "show all" flag
    inputValue,       \* Downshift state
    isOpen,           \* Downshift state
    selectedItem,     \* Downshift state
    highlightedIndex, \* Downshift state
    focused,          \* document.activeElement === inputRef.current
    blurTimer,        \* Downshift's deferred blur handler is scheduled
    query,            \* last render: query handed to children
    results,          \* last render: results handed to children
    searchCalls,      \* last render: number of fuse.search invocations
    crashed,          \* last render threw
    lastEvent,        \* type of the last transition
    navCalls,         \* last transition: api.selectStory calls <<id, ref>>
    blurCalls         \* last transition: inputRef.current.blur() calls

vars == <<dataset, lastViewed, rankMode, api, list, allComponents, inputValue,
          isOpen, selectedItem, highlightedIndex, focused, blurTimer, query,
          results, searchCalls, crashed, lastEvent, navCalls, blurCalls>>

propVars == <<dataset, lastViewed, rankMode, api, list>>

----------------------------------------------------------------------------
(* Program constants *)

DEFAULT_MAX_SEARCH_RESULTS == 50

SHOW_ALL_MAX_RESULTS == 1000

DEFAULT_REF_ID == "storybook_internal"

(* Bounds of the model *)

MaxPad == 1          \* most spaces around the word of an input text

Over == 2            \* how far the match counts go beyond a cap

MaxHistory == 2      \* longest last-viewed history

Null == [null |-> TRUE]

NoRef == "false"     \* the value of `refId !== DEFAULT_REF_ID && refId` for the default ref

----------------------------------------------------------------------------
(* Text *)

Spaces(n) == [i \in 1..n |-> " "]

Words == {<< >>, <<"a">>}

(* the texts the user types: nothing or "a" with spaces before it or after *)
(* it, and "z"                                                             *)
Texts == {Spaces(l) \o w : l \in 0..MaxPad, w \in Words}
         \cup {w \o Spaces(r) : r \in 0..MaxPad, w \in Words}
         \cup {<<"z">>}

RECURSIVE TrimStart(_)
TrimStart(s) == IF s # <<>> /\ Head(s) = " " THEN TrimStart(Tail(s)) ELSE s

RECURSIVE TrimEnd(_)
TrimEnd(s) ==
    IF s # <<>> /\ s[Len(s)] = " " THEN TrimEnd(SubSeq(s, 1, Len(s) - 1)) ELSE s

Trim(s) == TrimEnd(TrimStart(s))

----------------------------------------------------------------------------
(* The combined dataset.  An index is the sequence of its items in         *)
(* Object.values order; the item at position p has id p.  Position 1 is a  *)
(* root, 2 a group, and every component is followed by its children.       *)

IndexItem(p, stories, docs, len, orphan) ==
    LET q == p - 3
        c == 3 + (q \div (stories + 1)) * (stories + 1)
    IN  IF p = 1 THEN [id |-> p, name |-> <<"z">>, type |-> "root", parent |-> 0]
        ELSE IF p = 2 THEN [id |-> p, name |-> <<"z">>, type |-> "group", parent |-> 1]
        ELSE IF orphan /\ p = len
             THEN [id |-> p, name |-> <<"a">>, type |-> "story", parent |-> len + 1]
        ELSE IF p = c THEN [id |-> p, name |-> <<"a">>, type |-> "component", parent |-> 2]
        ELSE IF docs /\ p = c + 1
             THEN [id |-> p, name |-> <<"a">>, type |-> "docs", parent |-> c]
        ELSE [id |-> p, name |-> <<"a">>, type |-> "story", parent |-> c]

BuildIndex(comps, stories, docs, orphan) ==
    LET len == 2 + comps * (stories + 1) + (IF orphan THEN 1 ELSE 0)
    IN  [p \in 1..len |-> IndexItem(p, stories, docs, len, orphan)]

ExtRef(ext) ==
    IF ext = "small"
    THEN << [refId |-> "r1", hasIndex |-> TRUE, index |-> BuildIndex(1, 1, FALSE, FALSE)] >>
    ELSE IF ext = "noindex"
    THEN << [refId |-> "r1", hasIndex |-> FALSE, index |-> <<>>] >>
    ELSE << >>

BuildDataset(shape) ==
    << [refId |-> DEFAULT_REF_ID, hasIndex |-> TRUE,
        index |-> BuildIndex(shape.comps, shape.stories, shape.docs, shape.orphan)] >>
    \o ExtRef(shape.ext)

(* dataset.hash[refId]: the sequence of the entries with that refId (at most one) *)
RefData(ds, refId) == SelectSeq(ds, LAMBDA e : e.refId = refId)

(* data.index[id] *)
HasEntry(data, id) == data.hasIndex /\ id \in 1..Len(data.index)

----------------------------------------------------------------------------
(* utils/tree searchItem: the item with the id of its reference *)
searchItem(item, refId) ==
    [id |-> item.id, name |-> item.name, type |-> item.type,
     parent |-> item.parent, refId |-> refId]

(* Rendering status.  A status map takes an item id to the sequence of the *)
(* statuses of its check results (Object.values order); a reference whose  *)
(* entry has no status field has an undefined status.                      *)

NoStatusValue == "null"

StatusValues == {"unknown", "success", "pending", "warn", "error"}

(* utils/status: the severity order error > warn > pending > success > unknown *)
StatusRank(s) ==
    IF s = "error" THEN 4 ELSE IF s = "warn" THEN 3 ELSE IF s = "pending" THEN 2
    ELSE IF s = "success" THEN 1 ELSE 0

(* utils/status getHighestStatus: the most severe of the statuses, unknown *)
(* when there is none                                                      *)
getHighestStatus(statuses) ==
    IF statuses = {} THEN "unknown"
    ELSE CHOOSE s \in statuses : \A t \in statuses : StatusRank(s) >= StatusRank(t)

(* `status` of a reference, the empty map when it is undefined *)
StatusOf(data) == IF "status" \in DOMAIN data THEN data.status ELSE << >>

SeqRange(q) == {q[i] : i \in 1..Len(q)}

(* the item at position p of the index lies under the item anc *)
RECURSIVE IsUnder(_, _, _)
IsUnder(index, p, anc) ==
    /\ p \in 1..Len(index)
    /\ index[p].parent # 0
    /\ \/ index[p].parent = anc
       \/ IsUnder(index, index[p].parent, anc)

(* utils/status getGroupStatus: it has an entry for the groups and the     *)
(* components, the most severe status of the stories under them            *)
HasGroupStatus(index, id) == index[id].type \in {"group", "component"}

GroupStatusAt(index, status, id) ==
    getHighestStatus(
        UNION {SeqRange(status[p]) :
                  p \in {q \in DOMAIN status :
                            /\ q \in 1..Len(index)
                            /\ index[q].type = "story"
                            /\ IsUnder(index, q, id)}})

(* the status of a list item with the group status before the item's own *)
itemStatus_GroupFirst(item, status, index) ==
    IF HasGroupStatus(index, item.id) THEN GroupStatusAt(index, status, item.id)
    ELSE IF item.id \in DOMAIN status THEN getHighestStatus(SeqRange(status[item.id]))
    ELSE NoStatusValue

(* status: statusValue || groupStatus[item.id] || null *)
itemStatus(item, status, index) ==
    LET statusValue == IF item.id \in DOMAIN status
                       THEN getHighestStatus(SeqRange(status[item.id]))
                       ELSE NoStatusValue
    IN  IF statusValue # NoStatusValue THEN statusValue
        ELSE IF HasGroupStatus(index, item.id) THEN GroupStatusAt(index, status, item.id)
        ELSE NoStatusValue

(* list (useMemo over dataset.entries) *)
RECURSIVE FlattenFrom(_, _)
FlattenFrom(ds, e) ==
    IF e > Len(ds) THEN << >>
    ELSE (IF ds[e].hasIndex
          THEN [p \in 1..Len(ds[e].index) |->
                   searchItem(ds[e].index[p], ds[e].refId)
                   @@ [status |-> itemStatus(ds[e].index[p], StatusOf(ds[e]),
                                             ds[e].index)]]
          ELSE << >>)
         \o FlattenFrom(ds, e + 1)

Flatten(ds) == FlattenFrom(ds, 1)

(* useMemo with no dependency: the list of the first render is kept *)
listMemo_Stale(ds, old) == old

(* useMemo(..., [dataset]): the list of a render with a new dataset; old  *)
(* is the memoized list of the previous render                            *)
listMemo(ds, old) == Flatten(ds)

----------------------------------------------------------------------------
(* fuse.search: the items of the list whose name shares a character with   *)
(* the query, ranked in list order or in reverse list order.               *)

RankModes == {"index", "reverse"}

FuzzyMatch(q, item) ==
    \E i \in 1..Len(q), j \in 1..Len(item.name) : q[i] # " " /\ q[i] = item.name[j]

FuseSearch(lst, mode, q) ==
    LET found == SelectSeq(lst, LAMBDA it : FuzzyMatch(q, it))
        n == Len(found)
    IN  [i \in 1..n |->
            [item |-> IF mode = "index" THEN found[i] ELSE found[n + 1 - i],
             score |-> i, matches |-> <<1>>]]

----------------------------------------------------------------------------
(* types.ts *)
isSearchResult(x) == "item" \in DOMAIN x

isExpandType(x) == "showAll" \in DOMAIN x

----------------------------------------------------------------------------
(* getResults *)

SearchableTypes == {"component", "docs", "story"}

(* FilterStep with the skip test on the item's own id *)
FilterStep_OwnId(st, m) ==
    IF ~(m.item.type \in SearchableTypes) \/ m.item.id \in st.seen
    THEN st
    ELSE [seen |-> st.seen \cup {m.item.id}, acc |-> Append(st.acc, m)]

(* FilterStep remembering the parent id of an accepted match *)
FilterStep_SeenParent(st, m) ==
    IF ~(m.item.type \in SearchableTypes) \/ m.item.parent \in st.seen
    THEN st
    ELSE [seen |-> st.seen \cup {m.item.parent}, acc |-> Append(st.acc, m)]

(* FilterStep without the test of the item type *)
FilterStep_NoTypeTest(st, m) ==
    IF m.item.parent \in st.seen
    THEN st
    ELSE [seen |-> st.seen \cup {m.item.id}, acc |-> Append(st.acc, m)]

(* the filter callback of distinctResults: st.seen is resultIds, st.acc    *)
(* the elements kept so far                                                *)
FilterStep(st, m) ==
    IF ~(m.item.type \in SearchableTypes) \/ m.item.parent \in st.seen
    THEN st
    ELSE [seen |-> st.seen \cup {m.item.id}, acc |-> Append(st.acc, m)]

(* Array.prototype.filter over found[lo..hi], left to right (the range is  *)
(* halved only to keep the evaluation shallow)                             *)
RECURSIVE FilterRange(_, _, _, _)
FilterRange(found, lo, hi, st) ==
    IF lo > hi THEN st
    ELSE IF lo = hi THEN FilterStep(st, found[lo])
    ELSE LET mid == (lo + hi) \div 2
             left == FilterRange(found, lo, mid, st)
         IN  IF Len(left.acc) >= 0 THEN FilterRange(found, mid + 1, hi, left) ELSE st

distinctResults(found) ==
    FilterRange(found, 1, Len(found), [seen |-> {}, acc |-> << >>]).acc

(* slice(-n): the last n elements *)
Slice_FromEnd(s, n) == SubSeq(s, IF Len(s) < n THEN 1 ELSE Len(s) - n + 1, Len(s))

(* slice(0, n) taking one element too many *)
Slice_OneMore(s, n) == SubSeq(s, 1, IF Len(s) < n + 1 THEN Len(s) ELSE n + 1)

Slice(s, n) == SubSeq(s, 1, IF Len(s) < n THEN Len(s) ELSE n)

(* the marker with the total count as its remaining count *)
ExpandMarker_NoSubtract(distinct) ==
    [showAll |-> "showAllComponents(true)",
     totalCount |-> Len(distinct),
     moreCount |-> Len(distinct)]

ExpandMarker(distinct) ==
    [showAll |-> "showAllComponents(true)",
     totalCount |-> Len(distinct),
     moreCount |-> Len(distinct) - DEFAULT_MAX_SEARCH_RESULTS]

(* getResults cutting at the default cap whatever the show-all flag *)
getResults_DefaultCap(input, all, lst, mode) ==
    IF input = << >> THEN << >>
    ELSE LET distinct == distinctResults(FuseSearch(lst, mode, input))
             shown == Slice(distinct, DEFAULT_MAX_SEARCH_RESULTS)
         IN  IF Len(distinct) > 0
             THEN IF Len(distinct) > DEFAULT_MAX_SEARCH_RESULTS /\ ~all
                  THEN Append(shown, ExpandMarker(distinct))
                  ELSE shown
             ELSE << >>

(* getResults appending the marker from the cap on, not beyond it *)
getResults_MarkerAtCap(input, all, lst, mode) ==
    IF input = << >> THEN << >>
    ELSE LET distinct == distinctResults(FuseSearch(lst, mode, input))
             shown == Slice(distinct, IF all THEN SHOW_ALL_MAX_RESULTS
                                             ELSE DEFAULT_MAX_SEARCH_RESULTS)
         IN  IF Len(distinct) > 0
             THEN IF Len(distinct) >= DEFAULT_MAX_SEARCH_RESULTS /\ ~all
                  THEN Append(shown, ExpandMarker(distinct))
                  ELSE shown
             ELSE << >>

getResults(input, all, lst, mode) ==
    IF input = << >> THEN << >>
    ELSE LET distinct == distinctResults(FuseSearch(lst, mode, input))
             shown == Slice(distinct, IF all THEN SHOW_ALL_MAX_RESULTS
                                             ELSE DEFAULT_MAX_SEARCH_RESULTS)
         IN  IF Len(distinct) > 0
             THEN IF Len(distinct) > DEFAULT_MAX_SEARCH_RESULTS /\ ~all
                  THEN Append(shown, ExpandMarker(distinct))
                  ELSE shown
             ELSE << >>

----------------------------------------------------------------------------
(* The last-viewed fallback of the render function.  threw: the reduce     *)
(* callback read `.id` of an undefined item.                               *)

(* LastViewedStep wrapping the stored item whatever its type *)
LastViewedStep_NoParent(st, sel, ds) ==
    LET data == RefData(ds, sel.refId)
    IN  IF st.threw THEN st
        ELSE IF data # << >> /\ HasEntry(data[1], sel.storyId)
        THEN LET item == data[1].index[sel.storyId]
             IN  IF ~(\E k \in 1..Len(st.acc) :
                         st.acc[k].item.refId = sel.refId /\ st.acc[k].item.id = item.id)
                 THEN [acc |-> Append(st.acc, [item |-> searchItem(item, sel.refId),
                                               matches |-> << >>, score |-> 0]),
                       threw |-> FALSE]
                 ELSE st
        ELSE st

(* LastViewedStep reading the index without the guard on data, data.index  *)
(* and data.index[storyId]                                                 *)
LastViewedStep_NoGuard(st, sel, ds) ==
    LET data == RefData(ds, sel.refId)
    IN  IF st.threw THEN st
        ELSE IF data # << >> /\ HasEntry(data[1], sel.storyId)
        THEN LET story == data[1].index[sel.storyId]
                 defined == story.type # "story" \/ HasEntry(data[1], story.parent)
                 item == IF story.type = "story" THEN data[1].index[story.parent] ELSE story
             IN  IF ~defined THEN [acc |-> st.acc, threw |-> TRUE]
                 ELSE IF ~(\E k \in 1..Len(st.acc) :
                             st.acc[k].item.refId = sel.refId /\ st.acc[k].item.id = item.id)
                 THEN [acc |-> Append(st.acc, [item |-> searchItem(item, sel.refId),
                                               matches |-> << >>, score |-> 0]),
                       threw |-> FALSE]
                 ELSE st
        ELSE [acc |-> st.acc, threw |-> TRUE]

(* LastViewedStep without the duplicate test *)
LastViewedStep_NoDedup(st, sel, ds) ==
    LET data == RefData(ds, sel.refId)
    IN  IF st.threw THEN st
        ELSE IF data # << >> /\ HasEntry(data[1], sel.storyId)
        THEN LET story == data[1].index[sel.storyId]
                 defined == story.type # "story" \/ HasEntry(data[1], story.parent)
                 item == IF story.type = "story" THEN data[1].index[story.parent] ELSE story
             IN  IF ~defined THEN [acc |-> st.acc, threw |-> TRUE]
                 ELSE [acc |-> Append(st.acc, [item |-> searchItem(item, sel.refId),
                                               matches |-> << >>, score |-> 0]),
                       threw |-> FALSE]
        ELSE st

LastViewedStep(st, sel, ds) ==
    LET data == RefData(ds, sel.refId)
    IN  IF st.threw THEN st
        ELSE IF data # << >> /\ HasEntry(data[1], sel.storyId)
        THEN LET story == data[1].index[sel.storyId]
                 defined == story.type # "story" \/ HasEntry(data[1], story.parent)
                 item == IF story.type = "story" THEN data[1].index[story.parent] ELSE story
             IN  IF ~defined THEN [acc |-> st.acc, threw |-> TRUE]
                 ELSE IF ~(\E k \in 1..Len(st.acc) :
                             st.acc[k].item.refId = sel.refId /\ st.acc[k].item.id = item.id)
                 THEN [acc |-> Append(st.acc, [item |-> searchItem(item, sel.refId),
                                               matches |-> << >>, score |-> 0]),
                       threw |-> FALSE]
                 ELSE st
        ELSE st

RECURSIVE LastViewedFrom(_, _, _, _)
LastViewedFrom(lv, k, st, ds) ==
    IF k > Len(lv) THEN st
    ELSE LastViewedFrom(lv, k + 1, LastViewedStep(st, lv[k], ds), ds)

LastViewedResults(lv, ds) == LastViewedFrom(lv, 1, [acc |-> << >>, threw |-> FALSE], ds)

(* Render without the trim of the input value *)
Render_NoTrim(iv, all, ds, lst, mode, lv) ==
    LET input == iv
        searched == IF input # << >> THEN getResults(input, all, lst, mode) ELSE << >>
        useHistory == input = << >> /\ Len(lv) > 0
        hist == LastViewedResults(lv, ds)
    IN  [query |-> input,
         results |-> IF useHistory THEN hist.acc ELSE searched,
         searchCalls |-> IF input # << >> THEN 1 ELSE 0,
         crashed |-> useHistory /\ hist.threw]

(* The render function of the Downshift child: what it hands to children *)
Render(iv, all, ds, lst, mode, lv) ==
    LET input == IF iv # << >> THEN Trim(iv) ELSE << >>
        searched == IF input # << >> THEN getResults(input, all, lst, mode) ELSE << >>
        useHistory == input = << >> /\ Len(lv) > 0
        hist == LastViewedResults(lv, ds)
    IN  [query |-> input,
         results |-> IF useHistory THEN hist.acc ELSE searched,
         searchCalls |-> IF input # << >> THEN 1 ELSE 0,
         crashed |-> useHistory /\ hist.threw]

----------------------------------------------------------------------------
(* Downshift: its default changes, and how it applies a reducer's result   *)

itemToString(x) == IF isSearchResult(x) THEN x.item.name ELSE << >>

DownshiftState == [inputValue |-> inputValue, isOpen |-> isOpen,
                   selectedItem |-> selectedItem, highlightedIndex |-> highlightedIndex]

(* reset(otherStateToSet) *)
ResetChanges(state, other) ==
    other @@ [isOpen |-> FALSE, highlightedIndex |-> 0,
              inputValue |-> itemToString(state.selectedItem)]

(* selectItem(item, otherStateToSet) *)
SelectItemChanges(item, other) ==
    other @@ [isOpen |-> FALSE, highlightedIndex |-> 0, selectedItem |-> item,
              inputValue |-> itemToString(item)]

Pick(ch, key, old) == IF key \in DOMAIN ch THEN ch[key] ELSE old

----------------------------------------------------------------------------
(* selectStory without the blur of the input *)
selectStory_NoBlur(id, refId, hasApi) ==
    [navCalls |-> IF hasApi
                  THEN << <<id, IF refId # DEFAULT_REF_ID THEN refId ELSE NoRef>> >>
                  ELSE << >>,
     blurCalls |-> 0,
     allComponents |-> FALSE]

(* selectStory with showAllComponents(true) *)
selectStory_SetsFlag(id, refId, hasApi) ==
    [navCalls |-> IF hasApi
                  THEN << <<id, IF refId # DEFAULT_REF_ID THEN refId ELSE NoRef>> >>
                  ELSE << >>,
     blurCalls |-> 1,
     allComponents |-> TRUE]

(* selectStory without the `if (api)` guard *)
selectStory_NoGuard(id, refId, hasApi) ==
    [navCalls |-> << <<id, IF refId # DEFAULT_REF_ID THEN refId ELSE NoRef>> >>,
     blurCalls |-> 1,
     allComponents |-> FALSE]

(* selectStory: its api.selectStory calls, its blur() calls, the new flag *)
selectStory(id, refId, hasApi) ==
    [navCalls |-> IF hasApi
                  THEN << <<id, IF refId # DEFAULT_REF_ID THEN refId ELSE NoRef>> >>
                  ELSE << >>,
     blurCalls |-> 1,
     allComponents |-> FALSE]

NoEffect(all) == [navCalls |-> << >>, blurCalls |-> 0, allComponents |-> all]

(* stateReducer, case by case: the changes it returns and its side effects *)

(* the blur override without `inputValue: state.inputValue` *)
blurInputCase_NoKeepInput(state, changes, all) ==
    [changes |-> [isOpen |-> state.inputValue # << >> /\ state.selectedItem = Null,
                  selectedItem |-> Null] @@ changes,
     effect |-> NoEffect(all)]

(* the blur override without its `isOpen` *)
blurInputCase_NoReopen(state, changes, all) ==
    [changes |-> [inputValue |-> state.inputValue, selectedItem |-> Null] @@ changes,
     effect |-> NoEffect(all)]

(* the blur override reopening the list whenever there is text *)
blurInputCase_ReopenOnText(state, changes, all) ==
    [changes |-> [inputValue |-> state.inputValue,
                  isOpen |-> state.inputValue # << >>,
                  selectedItem |-> Null] @@ changes,
     effect |-> NoEffect(all)]

(* the blur override without `selectedItem: null` *)
blurInputCase_KeepSelection(state, changes, all) ==
    [changes |-> [inputValue |-> state.inputValue,
                  isOpen |-> state.inputValue # << >> /\ state.selectedItem = Null]
                 @@ changes,
     effect |-> NoEffect(all)]

blurInputCase(state, changes, all) ==
    [changes |-> [inputValue |-> state.inputValue,
                  isOpen |-> state.inputValue # << >> /\ state.selectedItem = Null,
                  selectedItem |-> Null] @@ changes,
     effect |-> NoEffect(all)]

(* the mouseUp override returning the default changes *)
mouseUpCase_Default(state, changes, all) ==
    [changes |-> changes, effect |-> NoEffect(all)]

mouseUpCase(state, changes, all) ==
    [changes |-> [type |-> changes.type], effect |-> NoEffect(all)]

(* the Escape override without `isOpen: true` in its first stage *)
keyDownEscapeCase_NoReopen(state, changes, all) ==
    IF state.inputValue # << >>
    THEN [changes |-> [inputValue |-> << >>, selectedItem |-> Null] @@ changes,
          effect |-> NoEffect(all)]
    ELSE [changes |-> [isOpen |-> FALSE, selectedItem |-> Null] @@ changes,
          effect |-> [navCalls |-> << >>, blurCalls |-> 1, allComponents |-> all]]

keyDownEscapeCase(state, changes, all) ==
    IF state.inputValue # << >>
    THEN [changes |-> [inputValue |-> << >>, isOpen |-> TRUE, selectedItem |-> Null]
                      @@ changes,
          effect |-> NoEffect(all)]
    ELSE [changes |-> [isOpen |-> FALSE, selectedItem |-> Null] @@ changes,
          effect |-> [navCalls |-> << >>, blurCalls |-> 1, allComponents |-> all]]

(* the selection override without `inputValue: state.inputValue` *)
selectItemCase_NoKeepInput(state, changes, all, hasApi) ==
    IF isSearchResult(changes.selectedItem)
    THEN [changes |-> [isOpen |-> FALSE] @@ changes,
          effect |-> selectStory(changes.selectedItem.item.id,
                                 changes.selectedItem.item.refId, hasApi)]
    ELSE IF isExpandType(changes.selectedItem)
    THEN [changes |-> [type |-> changes.type],
          effect |-> [navCalls |-> << >>, blurCalls |-> 0, allComponents |-> TRUE]]
    ELSE [changes |-> changes, effect |-> NoEffect(all)]

(* the selection override returning the changes for an expand marker *)
selectItemCase_NoVeto(state, changes, all, hasApi) ==
    IF isSearchResult(changes.selectedItem)
    THEN [changes |-> [inputValue |-> state.inputValue, isOpen |-> FALSE] @@ changes,
          effect |-> selectStory(changes.selectedItem.item.id,
                                 changes.selectedItem.item.refId, hasApi)]
    ELSE IF isExpandType(changes.selectedItem)
    THEN [changes |-> changes,
          effect |-> [navCalls |-> << >>, blurCalls |-> 0, allComponents |-> TRUE]]
    ELSE [changes |-> changes, effect |-> NoEffect(all)]

selectItemCase(state, changes, all, hasApi) ==
    IF isSearchResult(changes.selectedItem)
    THEN [changes |-> [inputValue |-> state.inputValue, isOpen |-> FALSE] @@ changes,
          effect |-> selectStory(changes.selectedItem.item.id,
                                 changes.selectedItem.item.refId, hasApi)]
    ELSE IF isExpandType(changes.selectedItem)
    THEN [changes |-> [type |-> changes.type],
          effect |-> [navCalls |-> << >>, blurCalls |-> 0, allComponents |-> TRUE]]
    ELSE [changes |-> changes, effect |-> NoEffect(all)]

(* the changeInput override without showAllComponents(false) *)
changeInputCase_NoReset(state, changes, all) ==
    [changes |-> changes, effect |-> NoEffect(all)]

changeInputCase(state, changes, all) ==
    [changes |-> changes,
     effect |-> [navCalls |-> << >>, blurCalls |-> 0, allComponents |-> FALSE]]

stateReducer(state, changes, all, hasApi) ==
    IF changes.type = "blurInput" THEN blurInputCase(state, changes, all)
    ELSE IF changes.type = "mouseUp" THEN mouseUpCase(state, changes, all)
    ELSE IF changes.type = "keyDownEscape" THEN keyDownEscapeCase(state, changes, all)
    ELSE IF changes.type \in {"clickItem", "keyDownEnter"}
    THEN selectItemCase(state, changes, all, hasApi)
    ELSE IF changes.type = "changeInput" THEN changeInputCase(state, changes, all)
    ELSE [changes |-> changes, effect |-> NoEffect(all)]

----------------------------------------------------------------------------
(* Transitions.  Every transition ends with the re-render of the child.    *)

RenderAfter ==
    LET v == Render(inputValue', allComponents', dataset', list', rankMode', lastViewed')
    IN  /\ query' = v.query
        /\ results' = v.results
        /\ searchCalls' = v.searchCalls
        /\ crashed' = v.crashed

(* Dispatch with the blur transition processed inside the transition whose *)
(* reducer called blur(), not deferred                                     *)
Dispatch_NestedBlur(changes, focusAfter, timerAfter) ==
    LET r == stateReducer(DownshiftState, changes, allComponents, api)
        blurred == r.effect.blurCalls > 0 /\ focusAfter
        merged == [inputValue |-> Pick(r.changes, "inputValue", inputValue),
                   isOpen |-> Pick(r.changes, "isOpen", isOpen),
                   selectedItem |-> Pick(r.changes, "selectedItem", selectedItem),
                   highlightedIndex |-> Pick(r.changes, "highlightedIndex",
                                             highlightedIndex)]
        b == blurInputCase(merged, ResetChanges(merged, [type |-> "blurInput"]),
                           r.effect.allComponents)
        final == IF blurred
                 THEN [inputValue |-> Pick(b.changes, "inputValue", merged.inputValue),
                       isOpen |-> Pick(b.changes, "isOpen", merged.isOpen),
                       selectedItem |-> Pick(b.changes, "selectedItem",
                                             merged.selectedItem),
                       highlightedIndex |-> Pick(b.changes, "highlightedIndex",
                                                 merged.highlightedIndex)]
                 ELSE merged
    IN  /\ inputValue' = final.inputValue
        /\ isOpen' = final.isOpen
        /\ selectedItem' = final.selectedItem
        /\ highlightedIndex' = final.highlightedIndex
        /\ allComponents' = r.effect.allComponents
        /\ navCalls' = r.effect.navCalls
        /\ blurCalls' = r.effect.blurCalls
        /\ focused' = (focusAfter /\ ~blurred)
        /\ blurTimer' = timerAfter
        /\ lastEvent' = changes.type
        /\ UNCHANGED propVars
        /\ RenderAfter

(* internalSetState(changes): the reducer is consulted, its result is      *)
(* merged into the state; inputRef.current.blur() on the focused input     *)
(* fires the blur event, whose Downshift handler defers its reset.         *)
Dispatch(changes, focusAfter, timerAfter) ==
    LET r == stateReducer(DownshiftState, changes, allComponents, api)
        blurred == r.effect.blurCalls > 0 /\ focusAfter
    IN  /\ inputValue' = Pick(r.changes, "inputValue", inputValue)
        /\ isOpen' = Pick(r.changes, "isOpen", isOpen)
        /\ selectedItem' = Pick(r.changes, "selectedItem", selectedItem)
        /\ highlightedIndex' = Pick(r.changes, "highlightedIndex", highlightedIndex)
        /\ allComponents' = r.effect.allComponents
        /\ navCalls' = r.effect.navCalls
        /\ blurCalls' = r.effect.blurCalls
        /\ focused' = (focusAfter /\ ~blurred)
        /\ blurTimer' = (timerAfter \/ blurred)
        /\ lastEvent' = changes.type
        /\ UNCHANGED propVars
        /\ RenderAfter

(* the items the user can point at: the first one and the last two *)
ItemIdx(res) == {1, Len(res) - 1, Len(res)} \cap (1..Len(res))

isBrowsing == ~isOpen /\ ~focused

(* onFocus: openMenu() *)
FocusInput ==
    /\ ~crashed /\ ~focused
    /\ Dispatch([type |-> "unknown", isOpen |-> TRUE], TRUE, blurTimer)

(* the user leaves the input with the keyboard *)
LeaveInput ==
    /\ ~crashed /\ focused
    /\ focused' = FALSE /\ blurTimer' = TRUE
    /\ lastEvent' = "leave" /\ navCalls' = << >> /\ blurCalls' = 0
    /\ UNCHANGED <<inputValue, isOpen, selectedItem, highlightedIndex, allComponents>>
    /\ UNCHANGED propVars
    /\ RenderAfter

(* Downshift's deferred blur handler: reset({type: blurInput}) *)
BlurInput ==
    /\ ~crashed /\ blurTimer
    /\ Dispatch(ResetChanges(DownshiftState, [type |-> "blurInput"]), focused, FALSE)

(* a pointer-up outside the widget while the list is open *)
MouseUp ==
    /\ ~crashed /\ isOpen
    /\ Dispatch(ResetChanges(DownshiftState, [type |-> "mouseUp"]), FALSE, FALSE)

KeyDownEscape ==
    /\ ~crashed /\ focused
    /\ Dispatch(ResetChanges(DownshiftState,
                    IF isOpen THEN [type |-> "keyDownEscape"]
                    ELSE [type |-> "keyDownEscape", selectedItem |-> Null,
                          inputValue |-> << >>]),
                TRUE, blurTimer)

KeyDownEnter ==
    /\ ~crashed /\ focused /\ isOpen
    /\ highlightedIndex \in 1..Len(results)
    /\ Dispatch(SelectItemChanges(results[highlightedIndex], [type |-> "keyDownEnter"]),
                TRUE, blurTimer)

ClickItem(i) ==
    /\ ~crashed /\ ~isBrowsing
    /\ i \in ItemIdx(results)
    /\ Dispatch(SelectItemChanges(results[i], [type |-> "clickItem"]), focused, blurTimer)

ItemMouseEnter(i) ==
    /\ ~crashed /\ ~isBrowsing
    /\ i \in ItemIdx(results) /\ i # highlightedIndex
    /\ Dispatch([type |-> "itemMouseEnter", highlightedIndex |-> i], focused, blurTimer)

ChangeInput(v) ==
    /\ ~crashed /\ focused
    /\ v # inputValue
    /\ Dispatch([type |-> "changeInput", isOpen |-> TRUE, highlightedIndex |-> 0,
                 inputValue |-> v], TRUE, blurTimer)

(* the clear icon: clearSelection() *)
ClearSelection ==
    /\ ~crashed /\ isOpen
    /\ Dispatch([type |-> "unknown", selectedItem |-> Null, inputValue |-> << >>,
                 highlightedIndex |-> 0, isOpen |-> FALSE], FALSE, FALSE)

(* the parent renders the widget with a new dataset: list and fuse are     *)
(* memoized on it, the Downshift state and the flag stay                   *)
SetDataset(ds) ==
    /\ ~crashed
    /\ ds # dataset
    /\ dataset' = ds
    /\ list' = listMemo(ds, list)
    /\ lastEvent' = "dataset" /\ navCalls' = << >> /\ blurCalls' = 0
    /\ UNCHANGED <<lastViewed, rankMode, api, allComponents, inputValue, isOpen,
                   selectedItem, highlightedIndex, focused, blurTimer>>
    /\ RenderAfter

----------------------------------------------------------------------------
(* Scenarios: the props the widget is mounted with *)

NoHistory == << >>

(* a story of the default reference and a story of the reference r1 *)
Selections == {[storyId |-> 5, refId |-> DEFAULT_REF_ID],
               [storyId |-> 4, refId |-> "r1"]}

Histories == UNION {[1..n -> Selections] : n \in 0..MaxHistory}

SmallShape == [comps |-> 2, stories |-> 3, docs |-> TRUE, ext |-> "small", orphan |-> FALSE]

MarkerShape == [comps |-> DEFAULT_MAX_SEARCH_RESULTS + 1, stories |-> 0, docs |-> FALSE,
                ext |-> "none", orphan |-> FALSE]

Scenarios ==
    {[shape |-> SmallShape, history |-> h, mode |-> "index", hasApi |-> TRUE,
      initialQuery |-> << >>] : h \in Histories}
    \cup
    {[shape |-> SmallShape, history |-> NoHistory, mode |-> m, hasApi |-> a,
      initialQuery |-> q] : m \in RankModes, a \in BOOLEAN, q \in {<< >>, <<"a">>}}
    \cup
    {[shape |-> MarkerShape, history |-> NoHistory, mode |-> "index", hasApi |-> TRUE,
      initialQuery |-> << >>]}

(* the first render with the dataset ds and the other props of sc *)
InitOn(ds, sc) ==
    /\ dataset = ds
    /\ lastViewed = sc.history
    /\ rankMode = sc.mode
    /\ api = sc.hasApi
    /\ list = Flatten(ds)
    /\ allComponents = FALSE
    /\ inputValue = sc.initialQuery
    /\ isOpen = FALSE
    /\ selectedItem = Null
    /\ highlightedIndex = 0
    /\ focused = FALSE
    /\ blurTimer = FALSE
    /\ LET v == Render(sc.initialQuery, FALSE, ds, Flatten(ds), sc.mode, sc.history)
       IN  /\ query = v.query
           /\ results = v.results
           /\ searchCalls = v.searchCalls
           /\ crashed = v.crashed
    /\ lastEvent = "mount"
    /\ navCalls = << >>
    /\ blurCalls = 0

InitWith(sc) == InitOn(BuildDataset(sc.shape), sc)

Init == \E sc \in Scenarios : InitWith(sc)

Next ==
    \/ FocusInput
    \/ LeaveInput
    \/ BlurInput
    \/ MouseUp
    \/ KeyDownEscape
    \/ KeyDownEnter
    \/ \E i \in 1..(SHOW_ALL_MAX_RESULTS + 1) : ClickItem(i)
    \/ \E i \in 1..(SHOW_ALL_MAX_RESULTS + 1) : ItemMouseEnter(i)
    \/ \E v \in Texts : ChangeInput(v)
    \/ ClearSelection

Spec == Init /\ [][Next]_vars

----------------------------------------------------------------------------
(* The result pipeline on long match lists: the widget is mounted with a   *)
(* query over datasets whose match counts lie around the two caps, and     *)
(* the user focuses the input and clicks items.                            *)

CapShapes ==
    {[comps |-> c, stories |-> st, docs |-> FALSE, ext |-> "none", orphan |-> FALSE] :
        c \in (DEFAULT_MAX_SEARCH_RESULTS - 1)..(DEFAULT_MAX_SEARCH_RESULTS + Over),
        st \in {0, 1}}

LargeShapes ==
    {[comps |-> c, stories |-> 0, docs |-> FALSE, ext |-> "none", orphan |-> FALSE] :
        c \in (SHOW_ALL_MAX_RESULTS - 1)..(SHOW_ALL_MAX_RESULTS + Over)}

ResultScenarios ==
    {[shape |-> sh, history |-> NoHistory, mode |-> m, hasApi |-> TRUE,
      initialQuery |-> <<"a">>] : sh \in CapShapes, m \in RankModes}
    \cup
    {[shape |-> sh, history |-> NoHistory, mode |-> "index", hasApi |-> TRUE,
      initialQuery |-> <<"a">>] : sh \in LargeShapes}
    \cup
    {[shape |-> SmallShape, history |-> NoHistory, mode |-> m, hasApi |-> TRUE,
      initialQuery |-> q] : m \in RankModes, q \in {<<"a">>, <<"z">>, <<"a", "z">>}}

InitResults == \E sc \in ResultScenarios : InitWith(sc)

NextResults ==
    \/ FocusInput
    \/ BlurInput
    \/ \E i \in 1..(SHOW_ALL_MAX_RESULTS + 1) : ClickItem(i)

SpecResults == InitResults /\ [][NextResults]_vars

----------------------------------------------------------------------------
(* The last-viewed fallback: the widget is mounted with a history of       *)
(* selection records, some of which no longer resolve, and the user        *)
(* focuses the input, types and leaves.                                    *)

MISSING_STORY_ID == 99

(* the small dataset with one more story, whose parent is not in the index *)
OrphanShape == [SmallShape EXCEPT !.orphan = TRUE]

OrphanStoryId == Len(BuildDataset(OrphanShape)[1].index)

(* two stories of one component, a docs entry, a story of the reference    *)
(* r1, a story that is not in the index, a reference that is not in the    *)
(* dataset, and the story that is in the index without its parent (in the  *)
(* other datasets it is not in the index)                                  *)
HistorySelections ==
    {[storyId |-> 5, refId |-> DEFAULT_REF_ID],
     [storyId |-> 6, refId |-> DEFAULT_REF_ID],
     [storyId |-> 4, refId |-> DEFAULT_REF_ID],
     [storyId |-> 4, refId |-> "r1"],
     [storyId |-> MISSING_STORY_ID, refId |-> DEFAULT_REF_ID],
     [storyId |-> 4, refId |-> "r2"],
     [storyId |-> OrphanStoryId, refId |-> DEFAULT_REF_ID]}

(* the reference r1 with its index, the reference r1 without an index, and *)
(* the dataset with the story without its parent                           *)
HistoryShapes == {SmallShape, [SmallShape EXCEPT !.ext = "noindex"], OrphanShape}

HistoryScenarios ==
    {[shape |-> sh, history |-> h, mode |-> "index", hasApi |-> TRUE,
      initialQuery |-> << >>] :
        sh \in HistoryShapes,
        h \in UNION {[1..n -> HistorySelections] : n \in 0..MaxHistory}}

InitHistory == \E sc \in HistoryScenarios : InitWith(sc)

NextHistory ==
    \/ FocusInput
    \/ LeaveInput
    \/ BlurInput
    \/ \E v \in Texts : ChangeInput(v)

SpecHistory == InitHistory /\ [][NextHistory]_vars

----------------------------------------------------------------------------
(* Dataset changes: the parent replaces the dataset between the events of  *)
(* the user.                                                               *)

(* the small dataset, the same with the reference r1 without an index, and *)
(* a dataset of one component in one reference                             *)
DatasetShapes ==
    {SmallShape,
     [SmallShape EXCEPT !.ext = "noindex"],
     [comps |-> 1, stories |-> 1, docs |-> FALSE, ext |-> "none", orphan |-> FALSE]}

(* status maps of the default reference of the small dataset: entries for *)
(* stories, for a component whose stories have entries, an empty entry     *)
StatusMaps ==
    {(3 :> <<"pending">>) @@ (5 :> <<"success", "error">>) @@ (6 :> <<"warn">>)
        @@ (9 :> << >>),
     (10 :> <<"warn", "success">>)}

WithStatus(ds, status) == [ds EXCEPT ![1] = [status |-> status] @@ ds[1]]

Datasets ==
    {BuildDataset(sh) : sh \in DatasetShapes}
    \cup {WithStatus(BuildDataset(SmallShape), sm) : sm \in StatusMaps}

DatasetScenarios ==
    {[history |-> h, mode |-> m, hasApi |-> TRUE, initialQuery |-> << >>] :
        h \in {NoHistory, << [storyId |-> 5, refId |-> DEFAULT_REF_ID] >>},
        m \in RankModes}

InitDataset == \E ds \in Datasets, sc \in DatasetScenarios : InitOn(ds, sc)

NextDataset ==
    \/ \E ds \in Datasets : SetDataset(ds)
    \/ FocusInput
    \/ BlurInput
    \/ \E v \in Texts : ChangeInput(v)
    \/ \E i \in 1..(SHOW_ALL_MAX_RESULTS + 1) : ClickItem(i)

SpecDataset == InitDataset /\ [][NextDataset]_vars

----------------------------------------------------------------------------
(* Vocabulary of the properties *)

ResultIdx == {i \in 1..Len(results) : isSearchResult(results[i])}

MarkerIdx == {i \in 1..Len(results) : isExpandType(results[i])}

(* the distinct (type-filtered, deduplicated) matches of the rendered query *)
DistinctOf(lst, mode, q) == distinctResults(FuseSearch(lst, mode, q))

Distinct == DistinctOf(list, rankMode, query)

(* the first n elements of s, all of s when it has fewer *)
FirstOf(s, n) == SubSeq(s, 1, IF Len(s) < n THEN Len(s) ELSE n)

Searching == ~crashed /\ query # << >>

Blank(text) == \A i \in 1..Len(text) : text[i] = " "

SelectEvents == {"clickItem", "keyDownEnter"}

----------------------------------------------------------------------------
(* C1, as stated: no two search-result entries of a result sequence of    *)
(* getResults have items with the same parent id.                          *)
C1_NoSharedParent ==
    Searching =>
        \A i \in ResultIdx, j \in ResultIdx :
            i # j => results[i].item.parent # results[j].item.parent

(* C1, amended: in a result sequence of getResults no search-result entry  *)
(* has an item whose parent id is the own id of the item of an earlier     *)
(* entry (a story ranked after its accepted component collapses into it).  *)
C1_NoChildAfterParent ==
    Searching =>
        \A i \in ResultIdx, j \in ResultIdx :
            j < i => results[i].item.parent # results[j].item.id

(* a story that matches the query was dropped because its component is in  *)
(* the results, next to another entry                                      *)
C1_Witness ==
    /\ Searching
    /\ Cardinality(ResultIdx) >= 2
    /\ \E i \in ResultIdx, k \in 1..Len(list) :
          /\ list[k].type = "story"
          /\ FuzzyMatch(query, list[k])
          /\ list[k].parent = results[i].item.id
          /\ list[k].refId = results[i].item.refId
          /\ \A j \in ResultIdx : results[j].item # list[k]

----------------------------------------------------------------------------
(* C2: for a non-empty query the result sequence has at most 50            *)
(* search-result entries when the show-all flag is false and at most 1000  *)
(* when it is true, the expand marker not counted.                         *)
C2_CapInvariant ==
    Searching =>
        Cardinality(ResultIdx) <= (IF allComponents THEN 1000 ELSE 50)

(* more than 1000 distinct matches, cut to 1000 with show-all *)
C2_Witness ==
    /\ Searching
    /\ allComponents
    /\ Len(Distinct) > 1000
    /\ Cardinality(ResultIdx) = 1000

(* C3: the result sequence contains an expand marker if and only if there  *)
(* are more than 50 distinct matches and the show-all flag is false.       *)
C3_MarkerIff ==
    Searching => ((MarkerIdx # {}) <=> (Len(Distinct) > 50 /\ ~allComponents))

(* exactly 51 distinct matches and a marker *)
C3_Witness ==
    /\ Searching
    /\ Len(Distinct) = 51
    /\ ~allComponents
    /\ MarkerIdx # {}

(* C4: an expand marker carries the number of distinct matches as its      *)
(* totalCount and that number minus 50 as its moreCount, so totalCount is  *)
(* the number of search-result entries shown plus moreCount.               *)
C4_MarkerCounts ==
    Searching =>
        \A i \in MarkerIdx :
            /\ results[i].totalCount = Len(Distinct)
            /\ results[i].moreCount = Len(Distinct) - 50
            /\ results[i].totalCount = Cardinality(ResultIdx) + results[i].moreCount

(* a marker for more than one hidden match *)
C4_Witness ==
    /\ Searching
    /\ \E i \in MarkerIdx : results[i].moreCount >= 2 /\ results[i].totalCount >= 52

----------------------------------------------------------------------------
(* the records of the history that resolve in the dataset, and the item id *)
(* each resolves to: the parent of a story, the entry itself otherwise     *)
Resolvable(sel) ==
    \E e \in 1..Len(dataset) :
        /\ dataset[e].refId = sel.refId
        /\ dataset[e].hasIndex
        /\ sel.storyId \in 1..Len(dataset[e].index)

ResolvedId(sel) ==
    LET e == CHOOSE e \in 1..Len(dataset) : dataset[e].refId = sel.refId
        story == dataset[e].index[sel.storyId]
    IN  IF story.type = "story" THEN story.parent ELSE story.id

(* C5: when the input text is empty or whitespace-only, rendering does not *)
(* invoke the fuzzy search and hands over exactly the entries derived from *)
(* the last-viewed history (none when the history is empty).               *)
C5_EmptyQuery ==
    (~crashed /\ Blank(inputValue)) =>
        /\ searchCalls = 0
        /\ query = << >>
        /\ \A i \in 1..Len(results) :
              /\ isSearchResult(results[i])
              /\ results[i].score = 0
              /\ results[i].matches = << >>
              /\ \E k \in 1..Len(lastViewed) :
                    /\ Resolvable(lastViewed[k])
                    /\ results[i].item.refId = lastViewed[k].refId
                    /\ results[i].item.id = ResolvedId(lastViewed[k])
        /\ \A k \in 1..Len(lastViewed) :
              Resolvable(lastViewed[k]) =>
                  \E i \in 1..Len(results) :
                      /\ results[i].item.refId = lastViewed[k].refId
                      /\ results[i].item.id = ResolvedId(lastViewed[k])
        /\ (lastViewed = << >> => results = << >>)

(* a whitespace-only input rendered as history, over a dataset the text    *)
(* would match                                                             *)
C5_Witness ==
    /\ ~crashed
    /\ inputValue = <<" ">>
    /\ lastEvent = "changeInput"
    /\ Len(results) >= 2
    /\ searchCalls = 0

----------------------------------------------------------------------------
(* the indexes an item click or an Enter key press can select *)
SelectIdx == (ItemIdx(results) \cup {highlightedIndex}) \cap (1..Len(results))

(* an item click or an Enter key press on the item at index i *)
SelectStep(i) ==
    /\ lastEvent' \in SelectEvents
    /\ ClickItem(i) \/ (highlightedIndex = i /\ KeyDownEnter)

(* C6: an Escape with a non-empty input text and the list open empties the *)
(* text and keeps the list open; an Escape with an empty text closes the   *)
(* list and removes the focus from the input.                              *)
C6_TwoStageEscape ==
    [][KeyDownEscape =>
          /\ (inputValue # << >> /\ isOpen) => (inputValue' = << >> /\ isOpen')
          /\ (inputValue = << >>) => (~isOpen' /\ ~focused' /\ blurCalls' = 1)]_vars

(* the second stage has run: the list is closed and the input blurred *)
C6_Witness ==
    /\ lastEvent = "keyDownEscape"
    /\ inputValue = << >>
    /\ ~isOpen /\ ~focused
    /\ blurCalls = 1
    /\ blurTimer

(* C7, as stated: an item click or Enter on a search result with item      *)
(* (id, refId) invokes the navigation callback exactly once with that id   *)
(* and that refId and keeps the input text.                                *)
C7_NavigatesWithRefId ==
    [][\A i \in SelectIdx :
          (isSearchResult(results[i]) /\ SelectStep(i)) =>
              /\ navCalls' = << <<results[i].item.id, results[i].item.refId>> >>
              /\ inputValue' = inputValue]_vars

(* C7, amended: the input text is kept, and when the host API is available *)
(* api.selectStory is invoked exactly once with that id and with the ref   *)
(* option refId, or false when refId is the default reference id.          *)
C7_NavigatesOnce ==
    [][\A i \in SelectIdx :
          (isSearchResult(results[i]) /\ SelectStep(i)) =>
              /\ inputValue' = inputValue
              /\ api => navCalls' =
                    << <<results[i].item.id,
                         IF results[i].item.refId = DEFAULT_REF_ID THEN NoRef
                         ELSE results[i].item.refId>> >>]_vars

(* Enter on a result of the reference r1, the typed text still in the input *)
C7_Witness ==
    /\ lastEvent = "keyDownEnter"
    /\ Len(navCalls) = 1
    /\ navCalls[1][2] = "r1"
    /\ isSearchResult(selectedItem)
    /\ navCalls[1][1] = selectedItem.item.id
    /\ inputValue = <<"a">>

(* C8: an item click or Enter on a search result removes the focus from    *)
(* the input and leaves the show-all flag false.                           *)
C8_SelectBlursAndCollapses ==
    [][\A i \in SelectIdx :
          (isSearchResult(results[i]) /\ SelectStep(i)) =>
              /\ blurCalls' = 1
              /\ ~focused'
              /\ ~allComponents']_vars

(* a result selected from the focused input of a list long enough for a    *)
(* marker                                                                  *)
C8_Witness ==
    /\ lastEvent \in SelectEvents
    /\ isSearchResult(selectedItem)
    /\ blurCalls = 1
    /\ blurTimer
    /\ ~focused
    /\ ~allComponents
    /\ MarkerIdx # {}

(* C9: an item click or Enter on an expand marker sets the show-all flag   *)
(* and changes none of input text, open flag, selected item, highlighted   *)
(* index; the marker is never the selected item.                           *)
C9_MarkerVetoed ==
    [][/\ \A i \in SelectIdx :
             (isExpandType(results[i]) /\ SelectStep(i)) =>
                 /\ allComponents'
                 /\ UNCHANGED <<inputValue, isOpen, selectedItem, highlightedIndex>>
       /\ ~isExpandType(selectedItem')]_vars

(* Enter on the marker: the flag is set, the list still open and the       *)
(* highlight in place                                                      *)
C9_Witness ==
    /\ lastEvent = "keyDownEnter"
    /\ blurCalls = 0
    /\ allComponents
    /\ isOpen
    /\ highlightedIndex = DEFAULT_MAX_SEARCH_RESULTS + 1
    /\ ~isExpandType(selectedItem)

(* C10, as stated: after the reveal action of the marker the result        *)
(* sequence of the same query is every distinct match, without a marker.   *)
C10_RevealsAll ==
    [][\A i \in SelectIdx :
          (isExpandType(results[i]) /\ SelectStep(i)) =>
              (query' = query /\ results' = DistinctOf(list', rankMode', query'))]_vars

(* C10, amended: after the reveal action the result sequence of the same   *)
(* query is the first 1000 distinct matches (all of them when there are at *)
(* most 1000), without a marker.                                           *)
C10_RevealsUpToMax ==
    [][\A i \in SelectIdx :
          (isExpandType(results[i]) /\ SelectStep(i)) =>
              /\ query' = query
              /\ results' = FirstOf(DistinctOf(list', rankMode', query'), 1000)]_vars

(* the marker was clicked over 1001 distinct matches: 1000 are shown *)
C10_Witness ==
    /\ lastEvent = "clickItem"
    /\ blurCalls = 0
    /\ allComponents
    /\ Len(Distinct) = 1001
    /\ Len(results) = 1000
    /\ MarkerIdx = {}

----------------------------------------------------------------------------
(* C11: a text-input-change transition leaves the show-all flag false and  *)
(* otherwise applies the container's default change (the new text, the     *)
(* list open, no highlight, the selection untouched), so a search for the  *)
(* new text shows at most 50 search-result entries.                        *)
C11_ChangeInputResets ==
    [][\A v \in Texts :
          (lastEvent' = "changeInput" /\ inputValue' = v /\ ChangeInput(v)) =>
              /\ ~allComponents'
              /\ isOpen'
              /\ highlightedIndex' = 0
              /\ selectedItem' = selectedItem
              /\ navCalls' = << >> /\ blurCalls' = 0
              /\ Cardinality({i \in 1..Len(results') : isSearchResult(results'[i])})
                     <= DEFAULT_MAX_SEARCH_RESULTS]_vars

(* the text was changed over more than 50 matches: the flag is false, 50   *)
(* entries and the marker are shown                                        *)
C11_Witness ==
    /\ lastEvent = "changeInput"
    /\ inputValue = <<"a", " ">>
    /\ ~allComponents
    /\ isOpen
    /\ Cardinality(ResultIdx) = DEFAULT_MAX_SEARCH_RESULTS
    /\ MarkerIdx # {}

----------------------------------------------------------------------------
(* C12: a blur transition never changes the input text.                    *)
C12_BlurKeepsInput ==
    [][BlurInput => inputValue' = inputValue]_vars

(* the input was blurred with a padded text that is still there *)
C12_Witness ==
    /\ lastEvent = "blurInput"
    /\ inputValue = <<" ", "a">>
    /\ ~focused

(* C13: after a blur transition the list is open if and only if, before    *)
(* the blur, the input text was non-empty and no item was selected.        *)
C13_BlurReopens ==
    [][BlurInput => (isOpen' <=> (inputValue # << >> /\ selectedItem = Null))]_vars

(* a blur with text and no selection: the list is open *)
C13_Witness ==
    /\ lastEvent = "blurInput"
    /\ inputValue # << >>
    /\ isOpen
    /\ ~focused
    /\ ~blurTimer

(* C14: after every blur transition and after every Escape transition, of  *)
(* either stage, the container's selected item is null.                    *)
C14_SelectionCleared ==
    lastEvent \in {"blurInput", "keyDownEscape"} => selectedItem = Null

(* a blur after a selection: the text is there, the list is closed (an     *)
(* item was selected before the blur) and the selection is gone            *)
C14_Witness ==
    /\ lastEvent = "blurInput"
    /\ inputValue # << >>
    /\ ~isOpen
    /\ selectedItem = Null

(* C15: a pointer-up transition leaves the input text, the open flag, the  *)
(* selected item, the highlighted index and the show-all flag unchanged.   *)
C15_MouseUpNoOp ==
    [][MouseUp =>
          UNCHANGED <<inputValue, isOpen, selectedItem, highlightedIndex,
                      allComponents>>]_vars

(* a pointer-up with the list open over a text and a highlighted item *)
C15_Witness ==
    /\ lastEvent = "mouseUp"
    /\ isOpen
    /\ inputValue = <<"a">>
    /\ highlightedIndex > 0

----------------------------------------------------------------------------
(* the last render handed over the last-viewed entries *)
ShowsHistory == ~crashed /\ query = << >> /\ lastViewed # << >>

(* the stored item of a resolvable record, and the item the code wraps for *)
(* it: the parent of a story, the stored item itself otherwise             *)
StoredItem(sel) ==
    LET e == CHOOSE e \in 1..Len(dataset) : dataset[e].refId = sel.refId
    IN  dataset[e].index[sel.storyId]

WrappedItem(sel) ==
    LET e == CHOOSE e \in 1..Len(dataset) : dataset[e].refId = sel.refId
        story == dataset[e].index[sel.storyId]
    IN  IF story.type = "story" THEN dataset[e].index[story.parent] ELSE story

(* the entry at index i of the results is the one produced for the record sel *)
EntryOf(i, sel) ==
    /\ results[i].item.refId = sel.refId
    /\ results[i].item.id = WrappedItem(sel).id

(* C16: for each selection record whose story exists in the dataset, the   *)
(* last-viewed entry produced for it wraps the parent of the stored item   *)
(* when that item has type story, and the stored item itself otherwise.    *)
C16_HistoryResolution ==
    ShowsHistory =>
        \A k \in 1..Len(lastViewed) :
            Resolvable(lastViewed[k]) =>
                \E i \in 1..Len(results) :
                    /\ isSearchResult(results[i])
                    /\ results[i].item.refId = lastViewed[k].refId
                    /\ LET stored == StoredItem(lastViewed[k])
                       IN  IF stored.type = "story"
                           THEN /\ results[i].item.id = stored.parent
                                /\ results[i].item.type = "component"
                                /\ results[i].item =
                                      searchItem(WrappedItem(lastViewed[k]),
                                                 lastViewed[k].refId)
                           ELSE results[i].item = searchItem(stored, lastViewed[k].refId)

(* the types of the stored items of the resolvable records *)
StoredItemTypes ==
    {StoredItem(lastViewed[k]).type :
        k \in {m \in 1..Len(lastViewed) : Resolvable(lastViewed[m])}}

(* a story record and a docs record, rendered again after a blur: a        *)
(* component entry and a docs entry                                        *)
C16_Witness ==
    /\ ShowsHistory
    /\ lastEvent = "blurInput"
    /\ Len(lastViewed) = 2
    /\ StoredItemTypes = {"story", "docs"}
    /\ {results[i].item.type : i \in 1..Len(results)} = {"component", "docs"}

(* C17: a record whose refId is not in the dataset, whose reference has no *)
(* index or whose storyId is not in that index contributes no entry and    *)
(* causes no error, and the other records are still processed.             *)
C17_UnresolvableSkipped ==
    (Blank(inputValue) /\ lastViewed # << >>) =>
        /\ (\A k \in 1..Len(lastViewed) :
                Resolvable(lastViewed[k]) =>
                    (StoredItem(lastViewed[k]).type = "story" =>
                        \E e \in 1..Len(dataset) :
                            /\ dataset[e].refId = lastViewed[k].refId
                            /\ HasEntry(dataset[e], StoredItem(lastViewed[k]).parent)))
              => ~crashed
        /\ ~crashed =>
              /\ \A i \in 1..Len(results) :
                    \E k \in 1..Len(lastViewed) :
                        Resolvable(lastViewed[k]) /\ EntryOf(i, lastViewed[k])
              /\ \A k \in 1..Len(lastViewed) :
                    Resolvable(lastViewed[k]) =>
                        \E i \in 1..Len(results) : EntryOf(i, lastViewed[k])

(* a record of a reference without an index before a record that resolves: *)
(* one entry, no error                                                     *)
C17_Witness ==
    /\ ShowsHistory
    /\ Len(lastViewed) = 2
    /\ \E e \in 1..Len(dataset) :
          dataset[e].refId = lastViewed[1].refId /\ ~dataset[e].hasIndex
    /\ Resolvable(lastViewed[2])
    /\ Len(results) = 1
    /\ EntryOf(1, lastViewed[2])

(* the position in the history of the first record that produces the pair  *)
(* (refId, item id) of the entry at index i                                *)
FirstRecordOf(i) ==
    CHOOSE k \in 1..Len(lastViewed) :
        /\ Resolvable(lastViewed[k]) /\ EntryOf(i, lastViewed[k])
        /\ \A m \in 1..(k - 1) :
              ~(Resolvable(lastViewed[m]) /\ EntryOf(i, lastViewed[m]))

(* C18: the last-viewed results have no two entries with the same (refId,  *)
(* item id) pair, are in the order of the first occurrence of their pair   *)
(* in the history, and every entry has score 0 and no matches.             *)
C18_HistoryDedup ==
    ShowsHistory =>
        /\ \A i \in 1..Len(results), j \in 1..Len(results) :
              i < j =>
                  /\ ~(/\ results[i].item.refId = results[j].item.refId
                        /\ results[i].item.id = results[j].item.id)
                  /\ FirstRecordOf(i) < FirstRecordOf(j)
        /\ \A i \in 1..Len(results) :
              results[i].score = 0 /\ results[i].matches = << >>

(* two stories of one component in the history, rendered for a            *)
(* whitespace-only text: one entry                                         *)
C18_Witness ==
    /\ ShowsHistory
    /\ lastEvent = "changeInput"
    /\ inputValue = <<" ">>
    /\ Len(lastViewed) = 2
    /\ lastViewed[1] # lastViewed[2]
    /\ Resolvable(lastViewed[1]) /\ Resolvable(lastViewed[2])
    /\ Len(results) = 1
    /\ results[1].score = 0

----------------------------------------------------------------------------
(* C19: every search-result entry returned by getResults has an item of    *)
(* type component, docs or story; a matching group or root is never        *)
(* returned, wherever the search ranks it.                                 *)
C19_OnlySearchableTypes ==
    Searching =>
        \A i \in ResultIdx : results[i].item.type \in {"component", "docs", "story"}

(* the query matches the root, which the search ranks first, and           *)
(* components: there are results                                           *)
C19_Witness ==
    /\ Searching
    /\ rankMode = "index"
    /\ list[1].type = "root"
    /\ FuzzyMatch(query, list[1])
    /\ \E k \in 1..Len(list) : list[k].type = "group" /\ FuzzyMatch(query, list[k])
    /\ ResultIdx # {}

----------------------------------------------------------------------------
(* C20: when no host API is available, an item click or Enter on a search  *)
(* result invokes no navigation operation and does not fail: the rest of   *)
(* the selection (blur, list closed, text kept) still happens.             *)
C20_NoApiNoNavigation ==
    [][\A i \in SelectIdx :
          (~api /\ isSearchResult(results[i]) /\ SelectStep(i)) =>
              /\ navCalls' = << >>
              /\ ~crashed'
              /\ blurCalls' = 1
              /\ ~isOpen'
              /\ selectedItem' = results[i]
              /\ inputValue' = inputValue]_vars

(* a result was selected without a host API: no navigation, the input      *)
(* blurred                                                                 *)
C20_Witness ==
    /\ ~api
    /\ lastEvent \in SelectEvents
    /\ isSearchResult(selectedItem)
    /\ navCalls = << >>
    /\ blurCalls = 1
    /\ ~isOpen
    /\ ~crashed

----------------------------------------------------------------------------
(* the number of indexed entries of the first n references of the dataset *)
RECURSIVE IndexedBefore(_, _)
IndexedBefore(ds, n) ==
    IF n = 0 THEN 0
    ELSE IndexedBefore(ds, n - 1) + (IF ds[n].hasIndex THEN Len(ds[n].index) ELSE 0)

(* C21: after any sequence of dataset changes and UI events the flattened  *)
(* list has exactly one search item per indexed entry of each reference of *)
(* the current dataset that has an index, in dataset order, and no other   *)
(* item.                                                                   *)
C21_ListFollowsDataset ==
    /\ Len(list) = IndexedBefore(dataset, Len(dataset))
    /\ \A e \in 1..Len(dataset) :
          dataset[e].hasIndex =>
              \A p \in 1..Len(dataset[e].index) :
                  LET it == list[IndexedBefore(dataset, e - 1) + p]
                      entry == dataset[e].index[p]
                  IN  /\ it.refId = dataset[e].refId
                      /\ it.id = entry.id
                      /\ it.name = entry.name
                      /\ it.type = entry.type
                      /\ it.parent = entry.parent

(* the dataset was replaced while a text was in the input, by one whose    *)
(* second reference has no index: the list is the first index alone        *)
C21_Witness ==
    /\ lastEvent = "dataset"
    /\ inputValue # << >>
    /\ Len(dataset) = 2
    /\ ~dataset[2].hasIndex
    /\ Len(list) = Len(dataset[1].index)
    /\ Len(results) > 0

----------------------------------------------------------------------------
(* C22: the status of each search item is the most severe status of the    *)
(* entry of its id in the status map of its reference when there is one,   *)
(* otherwise the group status of its id when there is one, otherwise null. *)
C22_StatusOrder ==
    \A e \in 1..Len(dataset) :
        dataset[e].hasIndex =>
            \A p \in 1..Len(dataset[e].index) :
                LET it == list[IndexedBefore(dataset, e - 1) + p]
                    status == StatusOf(dataset[e])
                IN  IF p \in DOMAIN status
                    THEN /\ it.status \in SeqRange(status[p]) \cup {"unknown"}
                         /\ \A t \in SeqRange(status[p]) :
                               StatusRank(it.status) >= StatusRank(t)
                    ELSE IF HasGroupStatus(dataset[e].index, p)
                    THEN it.status = GroupStatusAt(dataset[e].index, status, p)
                    ELSE it.status = NoStatusValue

(* a component with an entry of its own milder than the status of its      *)
(* stories, a component with a group status only, a docs item with neither *)
C22_Witness ==
    /\ lastEvent = "dataset"
    /\ 3 \in DOMAIN StatusOf(dataset[1])
    /\ list[3].type = "component" /\ list[3].status = "pending"
    /\ list[5].status = "error"
    /\ list[2].type = "group" /\ list[2].status = "error"
    /\ list[7].type = "component" /\ list[7].status = "unknown"
    /\ list[4].type = "docs" /\ list[4].status = NoStatusValue

----------------------------------------------------------------------------
----------------------------------------------------------------------------
(* the ranked matches of the rendered query, and the positions in them of  *)
(* the matches getResults accepted                                         *)
Ranked == FuseSearch(list, rankMode, query)

AcceptedIn(found, distinct) ==
    {k \in 1..Len(found) : \E i \in 1..Len(distinct) : distinct[i] = found[k]}

(* C24: walking the matches in ranked order, getResults accepts a match if *)
(* and only if its type is component, docs or story and its parent id is   *)
(* not the own id of an earlier accepted match.                            *)
C24_AcceptRule ==
    Searching =>
        LET found == Ranked
            accepted == AcceptedIn(found, Distinct)
        IN  /\ Cardinality(accepted) = Len(Distinct)
            /\ \A k \in 1..Len(found) :
                  k \in accepted <=>
                      /\ found[k].item.type \in {"component", "docs", "story"}
                      /\ \A j \in accepted :
                            j < k => found[j].item.id # found[k].item.parent

(* a component accepted after a component with the same parent, and a      *)
(* story dropped for its accepted component                                *)
C24_Witness ==
    /\ Searching
    /\ lastEvent = "changeInput"
    /\ LET found == Ranked
           accepted == AcceptedIn(found, Distinct)
       IN  /\ \E j \in accepted, k \in accepted :
                 /\ j < k
                 /\ found[j].item.parent = found[k].item.parent
                 /\ found[j].item.refId = found[k].item.refId
           /\ \E j \in accepted, k \in (1..Len(found)) \ accepted :
                 /\ j < k
                 /\ found[k].item.type = "story"
                 /\ found[k].item.parent = found[j].item.id

----------------------------------------------------------------------------
(* C25: deduplication in getResults is per reference: every match of a     *)
(* searchable type that was dropped has its parent id among the own ids of *)
(* the earlier accepted matches of its own reference.                      *)
C25_DedupPerReference ==
    Searching =>
        LET found == Ranked
            accepted == AcceptedIn(found, Distinct)
        IN  \A k \in (1..Len(found)) \ accepted :
                found[k].item.type \in SearchableTypes =>
                    \E j \in accepted :
                        /\ j < k
                        /\ found[j].item.id = found[k].item.parent
                        /\ found[j].item.refId = found[k].item.refId

----------------------------------------------------------------------------
(* C26: building the last-viewed results never fails: also for a record    *)
(* whose stored item is a story with a parent id that is absent from the   *)
(* index of its reference, the render completes.                           *)
C26_HistoryNeverFails ==
    (Blank(inputValue) /\ lastViewed # << >>) => ~crashed

----------------------------------------------------------------------------
(* C27: the search-result entries of getResults are a subsequence of the   *)
(* ranked matches in the same relative order (the score of a match is its  *)
(* rank), they are exactly the first 50, or with show-all the first 1000,  *)
(* distinct matches in rank order, all of them when there are fewer, and   *)
(* an expand marker is the single last element.                            *)
C27_RankOrderPrefix ==
    Searching =>
        LET found == Ranked
            distinct == Distinct
            cap == IF allComponents THEN 1000 ELSE 50
            shown == Len(results) - Cardinality(MarkerIdx)
        IN  /\ MarkerIdx \subseteq {Len(results)}
            /\ ResultIdx = 1..shown
            /\ shown = (IF Len(distinct) < cap THEN Len(distinct) ELSE cap)
            /\ \A i \in 1..shown :
                  /\ results[i] = distinct[i]
                  /\ results[i].score \in 1..Len(found)
                  /\ found[results[i].score] = results[i]
                  /\ i > 1 => results[i - 1].score < results[i].score

(* more distinct matches than the cap: 50 entries that skip ranked matches *)
(* and the marker after them                                               *)
C27_Witness ==
    /\ Searching
    /\ lastEvent = "blurInput"
    /\ Len(Distinct) > DEFAULT_MAX_SEARCH_RESULTS + 1
    /\ MarkerIdx = {DEFAULT_MAX_SEARCH_RESULTS + 1}
    /\ \E i \in 2..DEFAULT_MAX_SEARCH_RESULTS : results[i].score > results[i - 1].score + 1

----------------------------------------------------------------------------
(* C28: the result computation and the reducer overrides agree on what an  *)
(* empty input is: in every state whose rendered query is empty, an Escape *)
(* transition takes the second-stage branch (the input is blurred and the  *)
(* list closed) and a blur transition leaves the list closed.              *)
C28_AgreeOnEmpty ==
    [][(~crashed /\ query = << >>) =>
          /\ (lastEvent' = "keyDownEscape" /\ KeyDownEscape) =>
                (~isOpen' /\ blurCalls' = 1)
          /\ (lastEvent' = "blurInput" /\ BlurInput) => ~isOpen']_vars

----------------------------------------------------------------------------
(* C29: an item click or Enter on a search result closes the list and      *)
(* keeps the input text; the blur transition that follows (the selected    *)
(* item is still set) leaves the list closed, keeps the text and clears    *)
(* the selected item; and from the selection on, every transition that     *)
(* leaves the input without the focus leaves the list closed and the text  *)
(* unchanged.                                                              *)
C29_ClosedAfterSelection ==
    [][/\ \A i \in SelectIdx :
             (isSearchResult(results[i]) /\ SelectStep(i)) =>
                 (~isOpen' /\ inputValue' = inputValue)
       /\ (lastEvent' = "blurInput" /\ selectedItem # Null /\ BlurInput) =>
             (~isOpen' /\ inputValue' = inputValue /\ selectedItem' = Null)
       /\ (~isOpen /\ ~focused /\ lastEvent \in SelectEvents \cup {"blurInput"}) =>
             (focused' \/ (~isOpen' /\ inputValue' = inputValue))]_vars

(* the blur transition of a selection has run: the text is in the input,   *)
(* the list is closed, nothing is selected and no blur is pending          *)
C29_Witness ==
    /\ lastEvent = "blurInput"
    /\ inputValue = <<"a">>
    /\ ~isOpen
    /\ selectedItem = Null
    /\ ~focused
    /\ ~blurTimer
    /\ Len(results) > 0

----------------------------------------------------------------------------
(* C30: while the show-all flag is true and the input text is non-empty,   *)
(* the text is the one the reveal action of the marker was invoked for:    *)
(* the flag becomes true only by a reveal, which leaves the non-empty text *)
(* as it is; every text-input change and every search-result selection     *)
(* leaves the flag false; and no transition that leaves the flag true      *)
(* changes the text to a different non-empty value.                        *)
C30_FlagMatchesText ==
    [][/\ (~allComponents /\ allComponents') =>
             /\ \E i \in SelectIdx : isExpandType(results[i]) /\ SelectStep(i)
             /\ inputValue' = inputValue
             /\ inputValue # << >>
       /\ lastEvent' = "changeInput" => ~allComponents'
       /\ (\A i \in SelectIdx :
              (isSearchResult(results[i]) /\ SelectStep(i)) => ~allComponents')
       /\ (allComponents /\ allComponents' /\ inputValue' # << >>) =>
             inputValue' = inputValue]_vars

(* all the matches were revealed and the input was left: the flag is true  *)
(* and the text is still the one of the reveal                             *)
C30_Witness ==
    /\ allComponents
    /\ lastEvent = "blurInput"
    /\ inputValue # << >>
    /\ Trim(inputValue) = query
    /\ MarkerIdx = {}
    /\ Len(results) > DEFAULT_MAX_SEARCH_RESULTS

====
